---- MODULE Spec2Model ----
(***************************************************************************)
(* Model of KeithMeasure (Keithley2182a_6221/keith_meas_abc.py): the base  *)
(* class holding the parameters shared by the Keithley 6221/2182A          *)
(* measurements.  One instance is modelled.  Its attributes are the        *)
(* variables; every method is an action that also records, in `call`, the  *)
(* method just called, its arguments and how it ended.                     *)
(*                                                                         *)
(* Numbers are integers here: the arithmetic of calc_num_points is         *)
(* modelled for int arguments (Python's // floors for ints and floats      *)
(* alike; float rounding is outside the model).                            *)
(***************************************************************************)
EXTENDS Integers, Sequences, FiniteSets, TLC

VARIABLES unit_idx, curr1, curr2, num_points, meas_delay, low_meas,
          filter_on, filter_window, filter_count, pulse_width, call

\* The instance attributes assigned by __init__.
fields == <<unit_idx, curr1, curr2, num_points, meas_delay, low_meas,
            filter_on, filter_window, filter_count, pulse_width>>

vars == <<unit_idx, curr1, curr2, num_points, meas_delay, low_meas,
          filter_on, filter_window, filter_count, pulse_width, call>>

-----------------------------------------------------------------------------
\* Bounds of the model.

\* Counts (num_points, filter_count) are drawn from -MaxInt..MaxInt.
MaxInt == 1

\* Indices, currents, delays and the other magnitudes are drawn from 0..MaxArg.
MaxArg == 1

\* start, stop and step of calc_num_points are drawn from -MaxCalc..MaxCalc
\* when the function is checked on its own.
MaxCalc == 3

Ints == -MaxInt..MaxInt

Args == 0..MaxArg

CalcArgs == -MaxCalc..MaxCalc

-----------------------------------------------------------------------------
\* Python values.

\* Python's None; a method that returns the value v returns Value(v).
None == <<>>

Value(v) == <<v>>

\* abs() on ints.
abs(n) == IF n < 0 THEN -n ELSE n

\* a // b on ints, b # 0: the quotient rounded towards minus infinity.
FloorDiv(a, b) == IF b > 0 THEN a \div b ELSE (-a) \div (-b)

\* How a call ended: it returned ret, or it raised.
Returned(op, args, ret) ==
    [op |-> op, args |-> args, ret |-> ret, raised |-> FALSE]

Raised(op, args) ==
    [op |-> op, args |-> args, ret |-> None, raised |-> TRUE]

-----------------------------------------------------------------------------
\* The class statement.

\* The metaclass of KeithMeasure.  `class KeithMeasure():` names none, so it
\* is type; the class attribute __metaclass__ = ABCMeta is not read by
\* Python 3 (the file's annotations make it Python 3 only).
metaclass == "type"

\* The methods decorated with @abstractmethod.
abstractmethod == {"get_meas_type_str", "set_meas_rate"}

\* cls.__abstractmethods__: collected by ABCMeta when it builds the class,
\* empty for a class built by type.
abstractmethods == IF metaclass = "ABCMeta" THEN abstractmethod ELSE {}

\* KeithMeasure() raises TypeError iff the class has abstract methods left.
Instantiable == abstractmethods = {}

-----------------------------------------------------------------------------
\* __init__

KeithMeasure_init_zero_delay ==
    /\ unit_idx = 0
    /\ curr1 = 0
    /\ curr2 = 0
    /\ num_points = 0
    /\ meas_delay = 0
    /\ low_meas = TRUE
    /\ filter_on = FALSE
    /\ filter_window = 0
    /\ filter_count = 10
    /\ pulse_width = None

KeithMeasure_init ==
    /\ unit_idx = 0
    /\ curr1 = 0
    /\ curr2 = 0
    /\ num_points = 0
    /\ meas_delay = 2
    /\ low_meas = TRUE
    /\ filter_on = FALSE
    /\ filter_window = 0
    /\ filter_count = 10
    /\ pulse_width = None

Init ==
    /\ KeithMeasure_init
    /\ call = IF Instantiable THEN Returned("__init__", <<>>, None)
                              ELSE Raised("__init__", <<>>)

-----------------------------------------------------------------------------
\* The plain setters.

set_unit_idx(idx) ==
    /\ Instantiable
    /\ unit_idx' = idx
    /\ call' = Returned("set_unit_idx", <<idx>>, None)
    /\ UNCHANGED <<curr1, curr2, num_points, meas_delay, low_meas, filter_on,
                   filter_window, filter_count, pulse_width>>

set_curr1_into_curr2(num) ==
    /\ Instantiable
    /\ curr2' = num
    /\ call' = Returned("set_curr1", <<num>>, None)
    /\ UNCHANGED <<unit_idx, curr1, num_points, meas_delay, low_meas,
                   filter_on, filter_window, filter_count, pulse_width>>

set_curr1(num) ==
    /\ Instantiable
    /\ curr1' = num
    /\ call' = Returned("set_curr1", <<num>>, None)
    /\ UNCHANGED <<unit_idx, curr2, num_points, meas_delay, low_meas,
                   filter_on, filter_window, filter_count, pulse_width>>

set_curr2(num) ==
    /\ Instantiable
    /\ curr2' = num
    /\ call' = Returned("set_curr2", <<num>>, None)
    /\ UNCHANGED <<unit_idx, curr1, num_points, meas_delay, low_meas,
                   filter_on, filter_window, filter_count, pulse_width>>

set_num_points_off_by_one(points) ==
    /\ Instantiable
    /\ num_points' = points - 1
    /\ call' = Returned("set_num_points", <<points>>, None)
    /\ UNCHANGED <<unit_idx, curr1, curr2, meas_delay, low_meas, filter_on,
                   filter_window, filter_count, pulse_width>>

set_num_points(points) ==
    /\ Instantiable
    /\ num_points' = points
    /\ call' = Returned("set_num_points", <<points>>, None)
    /\ UNCHANGED <<unit_idx, curr1, curr2, meas_delay, low_meas, filter_on,
                   filter_window, filter_count, pulse_width>>

set_meas_delay(num) ==
    /\ Instantiable
    /\ meas_delay' = num
    /\ call' = Returned("set_meas_delay", <<num>>, None)
    /\ UNCHANGED <<unit_idx, curr1, curr2, num_points, low_meas, filter_on,
                   filter_window, filter_count, pulse_width>>

set_filter_on(enable) ==
    /\ Instantiable
    /\ filter_on' = enable
    /\ call' = Returned("set_filter_on", <<enable>>, None)
    /\ UNCHANGED <<unit_idx, curr1, curr2, num_points, meas_delay, low_meas,
                   filter_window, filter_count, pulse_width>>

set_filter_window_into_count(wind) ==
    /\ Instantiable
    /\ filter_count' = wind
    /\ call' = Returned("set_filter_window", <<wind>>, None)
    /\ UNCHANGED <<unit_idx, curr1, curr2, num_points, meas_delay, low_meas,
                   filter_on, filter_window, pulse_width>>

set_filter_window(wind) ==
    /\ Instantiable
    /\ filter_window' = wind
    /\ call' = Returned("set_filter_window", <<wind>>, None)
    /\ UNCHANGED <<unit_idx, curr1, curr2, num_points, meas_delay, low_meas,
                   filter_on, filter_count, pulse_width>>

set_filter_count(count) ==
    /\ Instantiable
    /\ filter_count' = count
    /\ call' = Returned("set_filter_count", <<count>>, None)
    /\ UNCHANGED <<unit_idx, curr1, curr2, num_points, meas_delay, low_meas,
                   filter_on, filter_window, pulse_width>>

-----------------------------------------------------------------------------
\* The methods whose body is `pass`: they return None and assign nothing.

set_curr_step(num) ==
    /\ Instantiable
    /\ call' = Returned("set_curr_step", <<num>>, None)
    /\ UNCHANGED fields

set_curr_delta(num) ==
    /\ Instantiable
    /\ call' = Returned("set_curr_delta", <<num>>, None)
    /\ UNCHANGED fields

set_num_sweeps(sweeps) ==
    /\ Instantiable
    /\ call' = Returned("set_num_sweeps", <<sweeps>>, None)
    /\ UNCHANGED fields

set_pulse_width(num) ==
    /\ Instantiable
    /\ call' = Returned("set_pulse_width", <<num>>, None)
    /\ UNCHANGED fields

set_low_meas_storing(enable) ==
    /\ Instantiable
    /\ low_meas' = enable
    /\ call' = Returned("set_low_meas", <<enable>>, None)
    /\ UNCHANGED <<unit_idx, curr1, curr2, num_points, meas_delay, filter_on,
                   filter_window, filter_count, pulse_width>>

set_low_meas(enable) ==
    /\ Instantiable
    /\ call' = Returned("set_low_meas", <<enable>>, None)
    /\ UNCHANGED fields

set_filter_idx(idx) ==
    /\ Instantiable
    /\ call' = Returned("set_filter_idx", <<idx>>, None)
    /\ UNCHANGED fields

update_num_points ==
    /\ Instantiable
    /\ call' = Returned("update_num_points", <<>>, None)
    /\ UNCHANGED fields

-----------------------------------------------------------------------------
\* The methods decorated with @abstractmethod.  On an instance that exists
\* their bodies run like any other: a docstring, or `pass`.

get_meas_type_str ==
    /\ Instantiable
    /\ call' = Returned("get_meas_type_str", <<>>, None)
    /\ UNCHANGED fields

set_meas_rate(rate) ==
    /\ Instantiable
    /\ call' = Returned("set_meas_rate", <<rate>>, None)
    /\ UNCHANGED fields

-----------------------------------------------------------------------------
\* calc_num_points and get_total_points.

\* calc_num_points without its try/except.
calc_num_points_unguarded(start, stop, step) ==
    IF step = 0
    THEN [value |-> None, raised |-> TRUE]
    ELSE [value |-> Value(abs(FloorDiv(stop - start, step)) + 1),
          raised |-> FALSE]

\* What calc_num_points returns: // raises ZeroDivisionError when step is 0,
\* and the except clause makes the result 1.
calc_num_points_out(start, stop, step) ==
    IF step = 0
    THEN [value |-> Value(1), raised |-> FALSE]
    ELSE [value |-> Value(abs(FloorDiv(stop - start, step)) + 1),
          raised |-> FALSE]

calc_num_points_storing(start, stop, step) ==
    LET out == calc_num_points_out(start, stop, step) IN
    /\ Instantiable
    /\ num_points' = out.value[1]
    /\ call' = Returned("calc_num_points", <<start, stop, step>>, out.value)
    /\ UNCHANGED <<unit_idx, curr1, curr2, meas_delay, low_meas, filter_on,
                   filter_window, filter_count, pulse_width>>

calc_num_points(start, stop, step) ==
    LET out == calc_num_points_out(start, stop, step) IN
    /\ Instantiable
    /\ call' = IF out.raised
               THEN Raised("calc_num_points", <<start, stop, step>>)
               ELSE Returned("calc_num_points", <<start, stop, step>>,
                             out.value)
    /\ UNCHANGED fields

get_total_points_none ==
    /\ Instantiable
    /\ call' = Returned("get_total_points", <<>>, None)
    /\ UNCHANGED fields

get_total_points ==
    /\ Instantiable
    /\ call' = Returned("get_total_points", <<>>, Value(num_points))
    /\ UNCHANGED fields

-----------------------------------------------------------------------------
\* Any method, called on the instance with any arguments.  Every method is
\* guarded by Instantiable: there is a self only if KeithMeasure() gave one.
\* Here calc_num_points is called for the sweep between the two stored current
\* levels; SpecCalc below calls it with every start, stop and step.

Next ==
    \/ \E idx \in Args : set_unit_idx(idx)
    \/ \E num \in Args : set_curr1(num)
    \/ \E num \in Args : set_curr2(num)
    \/ \E num \in Args : set_curr_step(num)
    \/ \E num \in Args : set_curr_delta(num)
    \/ \E points \in Ints : set_num_points(points)
    \/ \E step \in Args : calc_num_points(curr1, curr2, step)
    \/ \E sweeps \in Args : set_num_sweeps(sweeps)
    \/ \E rate \in Args : set_meas_rate(rate)
    \/ \E num \in Args : set_meas_delay(num)
    \/ \E num \in Args : set_pulse_width(num)
    \/ \E enable \in BOOLEAN : set_low_meas(enable)
    \/ \E idx \in Args : set_filter_idx(idx)
    \/ \E enable \in BOOLEAN : set_filter_on(enable)
    \/ \E wind \in Args : set_filter_window(wind)
    \/ \E count \in Ints : set_filter_count(count)
    \/ get_meas_type_str
    \/ get_total_points
    \/ update_num_points

Spec == Init /\ [][Next]_vars

\* calc_num_points on its own, over a wider range of arguments.
NextCalc ==
    \E start, stop, step \in CalcArgs : calc_num_points(start, stop, step)

SpecCalc == Init /\ [][NextCalc]_vars

-----------------------------------------------------------------------------
\* Properties.

PlainSetters == {"set_unit_idx", "set_curr1", "set_curr2", "set_num_points",
                 "set_meas_delay", "set_filter_on", "set_filter_window",
                 "set_filter_count"}

NoOps == {"set_curr_step", "set_curr_delta", "set_num_sweeps",
          "set_pulse_width", "set_low_meas", "set_filter_idx",
          "update_num_points"}

\* C1 (as claimed): for step # 0, calc_num_points(start, stop, step) returns
\* floor(|stop - start| / step) + 1, the absolute value being taken of the
\* difference before the floored division.  The code takes the absolute value
\* of the floored quotient instead, so this fails, e.g. for (0, -1, 2).
C1_AbsBeforeFloorDiv ==
    (call.op = "calc_num_points" /\ call.args[3] # 0)
        => /\ ~call.raised
           /\ call.ret = Value(FloorDiv(abs(call.args[2] - call.args[1]),
                                        call.args[3]) + 1)

\* C2 (as claimed): get_meas_type_str() and set_meas_rate(x) on the base
\* class never return: either KeithMeasure() is rejected (and then there is
\* no call at all) or the call raises.  The code returns None from both.
C2_AbstractCallsFail ==
    call.op \in abstractmethod => call.raised

\* C3: calc_num_points(start, stop, 0) returns exactly 1 and raises nothing,
\* for all start and stop.
C3_ZeroStepReturnsOne ==
    (call.op = "calc_num_points" /\ call.args[3] = 0)
        => (~call.raised /\ call.ret = Value(1))

C3_ZeroStepCalled ==
    /\ call.op = "calc_num_points"
    /\ call.args = <<1, 3, 0>>
    /\ call.ret = Value(1)

\* C4 (as claimed): num_points is non-negative in every reachable state,
\* whatever integers the operations are given.
C4_NumPointsNonNegative ==
    num_points >= 0

\* C4 (amended): num_points is 0 after construction and becomes negative only
\* by set_num_points being passed that negative value; so it is non-negative
\* as long as every value passed to set_num_points is.
C4_NegativeOnlyFromCaller ==
    [][num_points' < 0 =>
          \/ num_points' = num_points
          \/ (call'.op = "set_num_points" /\ call'.args[1] < 0
              /\ num_points' = call'.args[1])]_vars

C4_NonNegativePointsStored ==
    /\ call.op = "set_num_points"
    /\ call.args = <<1>>
    /\ num_points = 1

\* C5: the no-op operations set_curr_step, set_curr_delta, set_num_sweeps,
\* set_pulse_width, set_low_meas, set_filter_idx and update_num_points leave
\* every field unchanged, with any argument and in any reachable state.
C5_NoOpsChangeNothing ==
    [][call'.op \in NoOps => fields' = fields]_vars

C5_NoOpOnModifiedInstance ==
    /\ call.op = "set_low_meas"
    /\ call.args = <<FALSE>>
    /\ low_meas = TRUE
    /\ num_points = 1
    /\ filter_on = TRUE

\* C6: right after construction, before any operation, unit_idx = 0,
\* curr1 = 0, curr2 = 0, num_points = 0, meas_delay = 2, low_meas is true,
\* filter_on is false, filter_window = 0, filter_count = 10 and pulse_width
\* is unset.
C6_DefaultState ==
    call.op = "__init__" =>
        /\ unit_idx = 0
        /\ curr1 = 0
        /\ curr2 = 0
        /\ num_points = 0
        /\ meas_delay = 2
        /\ low_meas = TRUE
        /\ filter_on = FALSE
        /\ filter_window = 0
        /\ filter_count = 10
        /\ pulse_width = None

C6_JustConstructed ==
    call.op = "__init__" /\ ~call.raised

\* The field a plain setter is named for, as it reads now.
FieldOf(op) ==
    CASE op = "set_unit_idx" -> unit_idx
      [] op = "set_curr1" -> curr1
      [] op = "set_curr2" -> curr2
      [] op = "set_num_points" -> num_points
      [] op = "set_meas_delay" -> meas_delay
      [] op = "set_filter_on" -> filter_on
      [] op = "set_filter_window" -> filter_window
      [] op = "set_filter_count" -> filter_count

\* C7: after a plain setter is called with v its field reads back v, and
\* calling it again with the same v gives the state the first call gave.
C7_SetThenReadAndIdempotent ==
    /\ [](call.op \in PlainSetters =>
            (~call.raised /\ FieldOf(call.op) = call.args[1]))
    /\ [][(call.op \in PlainSetters /\ call'.op = call.op
           /\ call'.args = call.args) => fields' = fields]_vars

C7_FilterCountSet ==
    /\ call.op = "set_filter_count"
    /\ call.args = <<1>>
    /\ filter_count = 1
    /\ curr1 = 1

\* C8 (as claimed): whenever filter_on is true, filter_count > 0.
C8_FilterCountPositiveWhenOn ==
    filter_on => filter_count > 0

\* C8 (amended): filter_count is 10 after construction and becomes
\* non-positive only by set_filter_count being passed that value; so with
\* filter_on true, filter_count > 0 as long as every value passed to
\* set_filter_count is positive.
C8_NonPositiveOnlyFromCaller ==
    [][filter_count' <= 0 =>
          \/ filter_count' = filter_count
          \/ (call'.op = "set_filter_count" /\ call'.args[1] <= 0
              /\ filter_count' = call'.args[1])]_vars

C8_FilterOnWithPositiveCount ==
    /\ call.op = "set_filter_count"
    /\ call.args = <<1>>
    /\ filter_on
    /\ filter_count = 1

\* C9: get_total_points() returns the current num_points, which is 0 on an
\* unmodified instance and otherwise the last value passed to
\* set_num_points: no other operation (set_num_sweeps, update_num_points,
\* calc_num_points, ...) changes it.
C9_TotalPointsIsNumPoints ==
    /\ [](call.op = "get_total_points" =>
            (~call.raised /\ call.ret = Value(num_points)))
    /\ [](call.op = "__init__" => num_points = 0)
    /\ [][num_points' # num_points =>
            (call'.op = "set_num_points" /\ call'.args = <<num_points'>>)]_vars

C9_TotalPointsRead ==
    /\ call.op = "get_total_points"
    /\ call.ret = Value(1)
    /\ num_points = 1

\* C10: every operation modifies at most one field: a plain setter changes
\* only the field it is named for, and calc_num_points and get_total_points
\* change no field (calc_num_points does not store its result).
C10_AtMostOwnFieldChanges ==
    [][/\ unit_idx' # unit_idx => call'.op = "set_unit_idx"
       /\ curr1' # curr1 => call'.op = "set_curr1"
       /\ curr2' # curr2 => call'.op = "set_curr2"
       /\ num_points' # num_points => call'.op = "set_num_points"
       /\ meas_delay' # meas_delay => call'.op = "set_meas_delay"
       /\ low_meas' = low_meas
       /\ filter_on' # filter_on => call'.op = "set_filter_on"
       /\ filter_window' # filter_window => call'.op = "set_filter_window"
       /\ filter_count' # filter_count => call'.op = "set_filter_count"
       /\ pulse_width' = pulse_width
       /\ call'.op \in {"calc_num_points", "get_total_points"}
             => fields' = fields]_vars

C10_CalcResultNotStored ==
    /\ call.op = "calc_num_points"
    /\ call.ret = Value(2)
    /\ num_points = 0

====
